---- MODULE Spec2Model ----
(***************************************************************************)
(* Model of the prioai-dashboard edge functions and service worker:        *)
(*   functions/api/airtable.js      rate limiter, path validator, proxy    *)
(*   functions/api/intent-score.js  lead intent scoring handler            *)
(*   the service worker             install, activate and fetch listeners  *)
(*                                                                         *)
(* Strings the code inspects character by character (the path parameter,   *)
(* the model reply) are sequences of tokens; a token is one character or   *)
(* one identifier the code compares as a whole.  All other strings are     *)
(* plain TLA+ strings.                                                     *)
(***************************************************************************)
EXTENDS Integers, Sequences, FiniteSets, TLC

VARIABLES
    now,          \* Date.now()
    rateLimits,   \* the Map rateLimits: key -> [count, resetAt]
    crowd,        \* further entries of rateLimits, of clients that stay silent
    allowed,      \* result of the latest checkRateLimit call made on its own
    lastKey,      \* argument of that call
    winLog,       \* per key: start of the current window and calls made in it
    vPath,        \* argument of the latest validateAirtablePath call
    vResult,      \* its result
    env,          \* context.env: AIRTABLE_TOKEN, OPENAI_TOKEN ("" when not set)
    slots,        \* the invocations of onRequest: position, request, upstream call, response
    worker,       \* the service worker: lifecycle state, activate handler's promises
    cacheStorage, \* the origin's CacheStorage: caches in creation order
    events,       \* the fetch events the worker's listener is handling
    lastPut       \* per request URL: the response of the write that completed last

vars == <<now, rateLimits, crowd, allowed, lastKey, winLog, vPath, vResult, env, slots,
          worker, cacheStorage, events, lastPut>>
rateVars == <<now, rateLimits, crowd, allowed, lastKey, winLog>>
pathVars == <<vPath, vResult>>
handlerVars == <<env, slots>>
swVars == <<worker, cacheStorage, events, lastPut>>

----------------------------------------------------------------------------
(* Constants of airtable.js *)

ALLOWED_BASE == "applOjDjhH0RqLtBH"
ALLOWED_TABLES == <<"tblMptC862PyL7Znw", "tblLpN4wceakfNFpq">>
ALLOWED_ORIGINS ==
    << "https://dashboard.prioai.ca", "https://dash.prioai.ca",
       "https://prioai.ca", "https://www.prioai.ca",
       "http://localhost:3000", "http://localhost:8788",
       "http://127.0.0.1:8788" >>
RATE_LIMIT == 1000
RATE_WINDOW == 60000
CLEANUP_SIZE == 10000

(* Bounds of the model *)
MaxOver == 2        \* calls followed beyond RATE_LIMIT within one window
MaxWindows == 2     \* the clock runs up to MaxWindows * RATE_WINDOW + MaxSlack
MaxSlack == 1       \* milliseconds followed past a multiple of RATE_WINDOW
MaxPathLen == 6     \* every path of up to MaxPathLen tokens is validated
MaxBurst == 1       \* calls of one key the handlers' model follows from a fresh window
MaxReplyLen == 2    \* every model reply of up to MaxReplyLen characters is parsed

Range(s) == {s[i] : i \in DOMAIN s}

----------------------------------------------------------------------------
(* Rate limiter: checkRateLimit, airtable.js 19-46 *)

NoKey == ""
NoCrowd == [n |-> 0, resetAt |-> 0]

\* rateLimits.get(ip) || { count: 0, resetAt: now + RATE_WINDOW }
RecordOf(tbl, ip, t) ==
    IF ip \in DOMAIN tbl THEN tbl[ip] ELSE [count |-> 0, resetAt |-> t + RATE_WINDOW]

BumpedResetKeepsWindow(rec, t) ==
    IF t > rec.resetAt
    THEN [count |-> 1, resetAt |-> rec.resetAt]
    ELSE [rec EXCEPT !.count = @ + 1]
\* if (now > record.resetAt) { count = 1; resetAt = now + RATE_WINDOW } else count++
Bumped(rec, t) ==
    IF t > rec.resetAt
    THEN [count |-> 1, resetAt |-> t + RATE_WINDOW]
    ELSE [rec EXCEPT !.count = @ + 1]

MapSetIfAbsent(tbl, ip, rec) ==
    [k \in DOMAIN tbl \cup {ip} |-> IF k = ip /\ ip \notin DOMAIN tbl THEN rec ELSE tbl[k]]
\* rateLimits.set(ip, record)
MapSet(tbl, ip, rec) ==
    [k \in DOMAIN tbl \cup {ip} |-> IF k = ip THEN rec ELSE tbl[k]]

\* rateLimits.size, the silent clients' entries included
MapSize(tbl, cr) == Cardinality(DOMAIN tbl) + cr.n

SweptClear(tbl, t) == [k \in {} |-> tbl[k]]
\* the sweep: for (const [key, val] of rateLimits) if (now > val.resetAt) delete
Swept(tbl, t) ==
    LET keep == {k \in DOMAIN tbl : ~(t > tbl[k].resetAt)}
    IN  [k \in keep |-> tbl[k]]
SweptCrowd(cr, t) == IF cr.n > 0 /\ t > cr.resetAt THEN NoCrowd ELSE cr

\* the table after checkRateLimit(ip) at time t
TableAfter(tbl, cr, ip, t) ==
    IF ip = NoKey THEN tbl
    ELSE LET set == MapSet(tbl, ip, Bumped(RecordOf(tbl, ip, t), t))
         IN  IF MapSize(set, cr) > CLEANUP_SIZE THEN Swept(set, t) ELSE set

CrowdAfter(tbl, cr, ip, t) ==
    IF ip = NoKey THEN cr
    ELSE LET set == MapSet(tbl, ip, Bumped(RecordOf(tbl, ip, t), t))
         IN  IF MapSize(set, cr) > CLEANUP_SIZE THEN SweptCrowd(cr, t) ELSE cr

\* return record.count <= RATE_LIMIT
WithinLimit(count) == count <= RATE_LIMIT

\* the value checkRateLimit(ip) returns at time t
Allows(tbl, ip, t) ==
    IF ip = NoKey THEN TRUE
    ELSE WithinLimit(Bumped(RecordOf(tbl, ip, t), t).count)

\* the calls of one key, as the windows the calls themselves open: a window
\* starts with the first call made after the previous one ran out
NoWindow == [start |-> 0, calls |-> 0]
WinLogAfter(log, ip, t) ==
    IF ip = NoKey THEN log
    ELSE LET w == IF ip \in DOMAIN log THEN log[ip] ELSE NoWindow
             w2 == IF w.calls = 0 \/ t > w.start + RATE_WINDOW
                   THEN [start |-> t, calls |-> 1]
                   ELSE [w EXCEPT !.calls = @ + 1]
         IN  [k \in DOMAIN log \cup {ip} |-> IF k = ip THEN w2 ELSE log[k]]

Empty == [k \in {} |-> NoWindow]

----------------------------------------------------------------------------
(* Path validator: validateAirtablePath, airtable.js 48-87 *)

\* tokens a path is made of; every token but "/", ".", "?", "&", "=", " "
\* is a run of letters and digits
Alnum == {ALLOWED_BASE, ALLOWED_TABLES[1], ALLOWED_TABLES[2], "rec", "A", "wrongBase"}

\* path.startsWith('/') ? path.slice(1) : path
CleanPath(path) == IF Len(path) > 0 /\ path[1] = "/" THEN Tail(path) ELSE path

\* s.indexOf(tok), 1-based, 0 when absent
IndexOf(s, tok) ==
    IF \E i \in 1..Len(s) : s[i] = tok
    THEN CHOOSE i \in 1..Len(s) : s[i] = tok /\ \A j \in 1..(i - 1) : s[j] # tok
    ELSE 0

\* s.split(sep)
RECURSIVE Split(_, _)
Split(s, sep) ==
    LET i == IndexOf(s, sep)
    IN  IF i = 0 THEN <<s>>
        ELSE <<SubSeq(s, 1, i - 1)>> \o Split(SubSeq(s, i + 1, Len(s)), sep)

\* .filter(Boolean) on a list of strings
NonEmpty(parts) == SelectSeq(parts, LAMBDA p : Len(p) > 0)

\* const [pathPart] = cleanPath.split('?'); pathPart.split('/').filter(Boolean)
Parts(path) == NonEmpty(Split(Split(CleanPath(path), "?")[1], "/"))

RecordIdAnySuffix(seg) == Len(seg) >= 1 /\ seg[1] = "rec"
\* /^rec[a-zA-Z0-9]+$/.test(recordId)
RecordIdOk(seg) ==
    /\ Len(seg) >= 2
    /\ seg[1] = "rec"
    /\ \A i \in 2..Len(seg) : seg[i] \in Alnum

\* s.includes(tok + tok)
IncludesTwice(s, tok) == \E i \in 1..(Len(s) - 1) : s[i] = tok /\ s[i + 1] = tok

\* path.includes('..') || path.includes('//')
HasTraversal(path) == IncludesTwice(path, ".") \/ IncludesTwice(path, "/")

Valid == [valid |-> TRUE, error |-> ""]
Invalid(msg) == [valid |-> FALSE, error |-> msg]

validateAirtablePath(path) ==
    IF Len(path) = 0 THEN Invalid("Invalid path")
    ELSE LET parts == Parts(path)
         IN  IF Len(parts) < 2 \/ Len(parts) > 3 THEN Invalid("Invalid path structure")
             ELSE IF parts[1] # <<ALLOWED_BASE>> THEN Invalid("Invalid base")
             ELSE IF parts[2] \notin {<<t>> : t \in Range(ALLOWED_TABLES)}
                  THEN Invalid("Invalid table")
             ELSE IF Len(parts) = 3 /\ ~RecordIdOk(parts[3])
                  THEN Invalid("Invalid record ID format")
             ELSE IF HasTraversal(path) THEN Invalid("Invalid path characters")
             ELSE Valid

----------------------------------------------------------------------------
(* Requests, responses and upstream calls of the two handlers *)

NoReq == [ep |-> "", method |-> "", hasPath |-> FALSE, path |-> <<>>, origin |-> "",
          auth |-> "", cfip |-> "", xff |-> <<>>, body |-> ""]
NoCall == [url |-> <<>>, method |-> "", auth |-> <<>>, hasBody |-> FALSE]
NoReply == [status |-> 0, kind |-> "", data |-> "", content |-> <<>>]
NoResp == [status |-> 0, acao |-> "", error |-> "", data |-> "", score |-> 0,
           scoreField |-> "absent"]
IdleSlot == [pc |-> "idle", req |-> NoReq, call |-> NoCall, calls |-> 0,
             up |-> NoReply, resp |-> NoResp]

EchoOrigin(req) == req.origin
\* getCorsOrigin, the same in both files
getCorsOrigin(req) ==
    IF req.origin \in Range(ALLOWED_ORIGINS) THEN req.origin ELSE ALLOWED_ORIGINS[1]

\* new Response(null, { headers }) of the preflight branch
Preflight(cors) == [NoResp EXCEPT !.status = 200, !.acao = cors]

\* jsonResponse({ error }, status, corsOrigin)
ErrorResponse(msg, status, cors) ==
    [NoResp EXCEPT !.status = status, !.acao = cors, !.error = msg]

\* jsonResponse({ score: null, error }, status, corsOrigin)
NullScore(msg, status, cors) ==
    [NoResp EXCEPT !.status = status, !.acao = cors, !.error = msg, !.scoreField = "null"]

\* jsonResponse({ score: score }, 200, corsOrigin)
ScoreResponse(n, cors) ==
    [NoResp EXCEPT !.status = 200, !.acao = cors, !.score = n, !.scoreField = "number"]

\* jsonResponse(data, 200, corsOrigin)
DataResponse(d, cors) == [NoResp EXCEPT !.status = 200, !.acao = cors, !.data = d]

ClientKeyOrNone(req) ==
    IF req.cfip # "" THEN req.cfip
    ELSE IF Len(req.xff) > 0 THEN req.xff[1]
    ELSE NoKey
\* CF-Connecting-IP || X-Forwarded-For?.split(',')[0] || 'unknown'
ClientKey(req) ==
    IF req.cfip # "" THEN req.cfip
    ELSE IF Len(req.xff) > 0 /\ req.xff[1] # "" THEN req.xff[1]
    ELSE "unknown"

----------------------------------------------------------------------------
(* Airtable proxy: onRequest, airtable.js 110-211 *)

\* encodeURIComponent, token by token
EncodeToken(tok) ==
    CASE tok = "/" -> "%2F"
      [] tok = "=" -> "%3D"
      [] tok = " " -> "%20"
      [] tok = "?" -> "%3F"
      [] tok = "&" -> "%26"
      [] OTHER -> tok
Encode(s) == [i \in DOMAIN s |-> EncodeToken(s[i])]

\* key=value with both sides encoded, or the encoded pair when it has no "="
EncodePair(pair) ==
    LET eq == IndexOf(pair, "=")
    IN  IF eq > 0
        THEN Encode(SubSeq(pair, 1, eq - 1)) \o <<"=">> \o Encode(SubSeq(pair, eq + 1, Len(pair)))
        ELSE Encode(pair)

\* encodedPairs.join('&')
RECURSIVE Join(_, _)
Join(parts, sep) ==
    IF Len(parts) = 0 THEN <<>>
    ELSE IF Len(parts) = 1 THEN parts[1]
    ELSE parts[1] \o <<sep>> \o Join(Tail(parts), sep)

ApiRoot == "https://api.airtable.com/v0/"

\* const [basePath, queryString] = path.split('?'); the URL built from them
AirtableUrl(path) ==
    LET pieces == Split(path, "?")
        basePath == pieces[1]
        queryString == IF Len(pieces) >= 2 THEN pieces[2] ELSE <<>>
    IN  IF Len(queryString) > 0
        THEN <<ApiRoot>> \o basePath \o <<"?">>
                 \o Join([i \in DOMAIN Split(queryString, "&") |->
                             EncodePair(Split(queryString, "&")[i])], "&")
        ELSE <<ApiRoot>> \o basePath

TokenFromClient(token, req) == IF req.auth # "" THEN req.auth ELSE token
\* the token put in the upstream Authorization header: env.*_TOKEN
UpstreamToken(token, req) == token

\* 'Authorization': `Bearer ${token}`
Bearer(token) == <<"Bearer ", token>>

\* fetch() refuses a GET or HEAD request that carries a body with a TypeError
\* (Fetch standard, Request constructor): the handler sends text() for
\* every method but GET
FetchRefuses(method, hasBody) == hasBody /\ method \in {"GET", "HEAD"}

\* airtableResponse.ok
Ok(status) == status >= 200 /\ status <= 299

\* airtableResponse.status >= 500 ? 502 : airtableResponse.status
MaskedStatus(status) == IF status >= 500 THEN 502 ELSE status

\* a finished invocation: the response goes back to the runtime
Done(req, call, calls, up, resp) ==
    [pc |-> "done", req |-> req, call |-> call, calls |-> calls, up |-> up, resp |-> resp]

RejectionPathFirst(req, ok, token, cors) ==
    IF ~req.hasPath \/ Len(req.path) = 0
    THEN ErrorResponse("Missing path parameter", 400, cors)
    ELSE IF ~validateAirtablePath(req.path).valid
    THEN ErrorResponse(validateAirtablePath(req.path).error, 400, cors)
    ELSE IF ~ok
    THEN ErrorResponse("Rate limit exceeded. Please try again later.", 429, cors)
    ELSE IF token = ""
    THEN ErrorResponse("Server configuration error", 500, cors)
    ELSE NoResp
RejectionWithoutValidation(req, ok, token, cors) ==
    IF ~ok
    THEN ErrorResponse("Rate limit exceeded. Please try again later.", 429, cors)
    ELSE IF ~req.hasPath \/ Len(req.path) = 0
    THEN ErrorResponse("Missing path parameter", 400, cors)
    ELSE IF token = ""
    THEN ErrorResponse("Server configuration error", 500, cors)
    ELSE NoResp
\* lines 134-161: the response of the first check that fails, NoResp when all pass
Rejection(req, ok, token, cors) ==
    IF ~ok
    THEN ErrorResponse("Rate limit exceeded. Please try again later.", 429, cors)
    ELSE IF ~req.hasPath \/ Len(req.path) = 0
    THEN ErrorResponse("Missing path parameter", 400, cors)
    ELSE IF ~validateAirtablePath(req.path).valid
    THEN ErrorResponse(validateAirtablePath(req.path).error, 400, cors)
    ELSE IF token = ""
    THEN ErrorResponse("Server configuration error", 500, cors)
    ELSE NoResp

\* the call handed to fetch(airtableUrl, { method, headers, body })
AirtableCall(req, token, hasBody) ==
    [url |-> AirtableUrl(req.path), method |-> req.method,
     auth |-> Bearer(UpstreamToken(token, req)), hasBody |-> hasBody]

\* the invocation once its synchronous prefix has run, given checkRateLimit's answer
AirtableAfterChecks(req, ok, token) ==
    LET cors == getCorsOrigin(req)
        rej == Rejection(req, ok, token, cors)
    IN  IF rej # NoResp THEN Done(req, NoCall, 0, NoReply, rej)
        ELSE IF req.method = "GET"
        THEN [IdleSlot EXCEPT !.pc = "fetch", !.req = req, !.calls = 1,
                              !.call = AirtableCall(req, token, FALSE)]
        ELSE [IdleSlot EXCEPT !.pc = "body", !.req = req]

\* counts the model follows: up to MaxBurst calls of a fresh window, and the
\* calls around RATE_LIMIT
CountFollowed(c) ==
    c <= MaxBurst \/ (c >= RATE_LIMIT - MaxBurst /\ c <= RATE_LIMIT + MaxOver)

\* onRequest up to its first await (lines 110-190)
AirtableReceive(i, req) ==
    /\ slots[i].pc = "idle"
    /\ req.ep = "airtable"
    /\ IF req.method = "OPTIONS"
       THEN /\ slots' = [slots EXCEPT ![i] =
                            Done(req, NoCall, 0, NoReply, Preflight(getCorsOrigin(req)))]
            /\ UNCHANGED <<rateLimits, crowd, allowed, lastKey, winLog>>
       ELSE LET key == ClientKey(req)
            IN  /\ CountFollowed(Bumped(RecordOf(rateLimits, key, now), now).count)
                /\ rateLimits' = TableAfter(rateLimits, crowd, key, now)
                /\ crowd' = CrowdAfter(rateLimits, crowd, key, now)
                /\ winLog' = WinLogAfter(winLog, key, now)
                /\ UNCHANGED <<allowed, lastKey>>
                /\ slots' = [slots EXCEPT ![i] =
                       AirtableAfterChecks(req, Allows(rateLimits, key, now), env.AIRTABLE_TOKEN)]
    /\ UNCHANGED <<now, env, vPath, vResult, swVars>>

\* await request.text() resolves; fetch is called (line 184)
AirtableBodyRead(i) ==
    /\ slots[i].pc = "body"
    /\ LET req == slots[i].req
       IN  slots' = [slots EXCEPT ![i] =
               IF FetchRefuses(req.method, TRUE)
               THEN Done(req, NoCall, 0, NoReply,
                         ErrorResponse("Internal server error", 500, getCorsOrigin(req)))
               ELSE [@ EXCEPT !.pc = "fetch", !.calls = @ + 1,
                              !.call = AirtableCall(req, env.AIRTABLE_TOKEN, TRUE)]]
    /\ UNCHANGED <<rateVars, vPath, vResult, env, swVars>>

UpStatuses == {200, 201, 404, 429, 500, 503}
AirtableReplies ==
    {[status |-> st, kind |-> "json", data |-> d, content |-> <<>>] :
        st \in UpStatuses, d \in {"d1", "d2"}}
    \cup {[status |-> st, kind |-> "nonjson", data |-> "", content |-> <<>>] : st \in UpStatuses}

\* await fetch(...) resolves with Airtable's response
AirtableFetchResolves(i, reply) ==
    /\ slots[i].pc = "fetch"
    /\ slots[i].req.ep = "airtable"
    /\ slots' = [slots EXCEPT ![i] = [@ EXCEPT !.pc = "json", !.up = reply]]
    /\ UNCHANGED <<rateVars, vPath, vResult, env, swVars>>

\* await fetch(...) rejects: the catch block (lines 207-210)
AirtableFetchRejects(i) ==
    /\ slots[i].pc = "fetch"
    /\ slots[i].req.ep = "airtable"
    /\ slots' = [slots EXCEPT ![i] = [@ EXCEPT !.pc = "done",
           !.resp = ErrorResponse("Internal server error", 500, getCorsOrigin(slots[i].req))]]
    /\ UNCHANGED <<rateVars, vPath, vResult, env, swVars>>

\* the body relayed on success: the data of this invocation's own upstream response
Relayed(up) == up.data

\* await airtableResponse.json() settles (lines 193-205, 207-210)
AirtableJsonRead(i) ==
    /\ slots[i].pc = "json"
    /\ LET up == slots[i].up
           cors == getCorsOrigin(slots[i].req)
       IN  slots' = [slots EXCEPT ![i] = [@ EXCEPT !.pc = "done", !.resp =
               IF up.kind = "nonjson"
               THEN ErrorResponse("Internal server error", 500, cors)
               ELSE IF ~Ok(up.status)
               THEN ErrorResponse("Database request failed", MaskedStatus(up.status), cors)
               ELSE DataResponse(Relayed(up), cors)]]
    /\ UNCHANGED <<rateVars, vPath, vResult, env, swVars>>

\* the runtime has sent the response; the invocation is over
Release(i) ==
    /\ slots[i].pc = "done"
    /\ slots' = [slots EXCEPT ![i] = IdleSlot]
    /\ UNCHANGED <<rateVars, vPath, vResult, env, swVars>>

----------------------------------------------------------------------------
(* Intent score handler: onRequest, intent-score.js 57-139 *)

Digits == <<"0", "1", "2", "3", "4", "5", "6", "7", "8", "9">>
IsDigit(c) == \E d \in DOMAIN Digits : Digits[d] = c
DigitValue(c) == IndexOf(Digits, c) - 1

\* String.prototype.trim on a reply of characters
RECURSIVE TrimLeft(_)
TrimLeft(s) == IF Len(s) > 0 /\ s[1] = " " THEN TrimLeft(Tail(s)) ELSE s
RECURSIVE TrimRight(_)
TrimRight(s) ==
    IF Len(s) > 0 /\ s[Len(s)] = " " THEN TrimRight(SubSeq(s, 1, Len(s) - 1)) ELSE s
Trim(s) == TrimRight(TrimLeft(s))

\* the number of leading decimal digits of s
RECURSIVE LeadingDigits(_)
LeadingDigits(s) ==
    IF Len(s) > 0 /\ IsDigit(s[1]) THEN 1 + LeadingDigits(Tail(s)) ELSE 0

\* the value of a run of decimal digits
RECURSIVE Decimal(_)
Decimal(s) ==
    IF Len(s) = 0 THEN 0
    ELSE 10 * Decimal(SubSeq(s, 1, Len(s) - 1)) + DigitValue(s[Len(s)])

NaN == [nan |-> TRUE, value |-> 0]

\* parseInt(s, 10): leading blanks, an optional sign, the longest run of digits
ParseInt(s) ==
    LET t == TrimLeft(s)
        signed == Len(t) > 0 /\ t[1] \in {"-", "+"}
        body == IF signed THEN Tail(t) ELSE t
        n == LeadingDigits(body)
        v == Decimal(SubSeq(body, 1, n))
    IN  IF n = 0 THEN NaN
        ELSE [nan |-> FALSE, value |-> IF signed /\ t[1] = "-" THEN 0 - v ELSE v]

BadScoreNoUpperBound(p) == p.nan \/ p.value < 1
\* isNaN(score) || score < 1 || score > 5
BadScore(p) == p.nan \/ p.value < 1 \/ p.value > 5

CompletionsUrl == "https://api.openai.com/v1/chat/completions"

\* the call handed to fetch (lines 101-116)
IntentCall(req, token) ==
    [url |-> <<CompletionsUrl>>, method |-> "POST",
     auth |-> Bearer(UpstreamToken(token, req)), hasBody |-> TRUE]

\* onRequest up to await request.json() (lines 57-86)
IntentReceive(i, req) ==
    /\ slots[i].pc = "idle"
    /\ req.ep = "intent"
    /\ LET cors == getCorsOrigin(req)
       IN  slots' = [slots EXCEPT ![i] =
               IF req.method = "OPTIONS"
               THEN Done(req, NoCall, 0, NoReply, Preflight(cors))
               ELSE IF req.method # "POST"
               THEN Done(req, NoCall, 0, NoReply, ErrorResponse("Method not allowed", 405, cors))
               ELSE IF env.OPENAI_TOKEN = ""
               THEN Done(req, NoCall, 0, NoReply,
                         NullScore("Server configuration error", 500, cors))
               ELSE [IdleSlot EXCEPT !.pc = "reqjson", !.req = req]]
    /\ UNCHANGED <<rateVars, vPath, vResult, env, swVars>>

\* await request.json() settles; the prompt is built and fetch is called
\* (lines 86-116); a body that is not JSON rejects, a body null throws on
\* body.status
IntentRequestJson(i) ==
    /\ slots[i].pc = "reqjson"
    /\ LET req == slots[i].req
       IN  slots' = [slots EXCEPT ![i] =
               IF req.body \in {"malformed", "null"}
               THEN Done(req, NoCall, 0, NoReply,
                         NullScore("Internal server error", 500, getCorsOrigin(req)))
               ELSE [@ EXCEPT !.pc = "fetch", !.calls = @ + 1,
                              !.call = IntentCall(req, env.OPENAI_TOKEN)]]
    /\ UNCHANGED <<rateVars, vPath, vResult, env, swVars>>

ReplyChars == {"0", "1", "5", "6", " ", "-", "a"}
Contents == UNION {[1..k -> ReplyChars] : k \in 0..MaxReplyLen} \cup {<<"4">>, <<"7">>}
IntentReplies ==
    {[status |-> 200, kind |-> "json", data |-> "", content |-> c] : c \in Contents}
    \cup {[status |-> st, kind |-> k, data |-> "", content |-> <<>>] :
             st \in {200, 429, 500}, k \in {"json", "nonjson", "null"}}

\* await fetch(...) resolves with the completion API's response
IntentFetchResolves(i, reply) ==
    /\ slots[i].pc = "fetch"
    /\ slots[i].req.ep = "intent"
    /\ slots' = [slots EXCEPT ![i] = [@ EXCEPT !.pc = "read", !.up = reply]]
    /\ UNCHANGED <<rateVars, vPath, vResult, env, swVars>>

\* await fetch(...) rejects: the catch block (lines 135-138)
IntentFetchRejects(i) ==
    /\ slots[i].pc = "fetch"
    /\ slots[i].req.ep = "intent"
    /\ slots' = [slots EXCEPT ![i] = [@ EXCEPT !.pc = "done",
           !.resp = NullScore("Internal server error", 500, getCorsOrigin(slots[i].req))]]
    /\ UNCHANGED <<rateVars, vPath, vResult, env, swVars>>

\* the response once the upstream body is read and the reply parsed
IntentResponse(up, cors) ==
    LET score == ParseInt(Trim(up.content))
    IN  IF ~Ok(up.status) THEN NullScore("AI scoring failed", 502, cors)
        ELSE IF up.kind # "json" THEN NullScore("Internal server error", 500, cors)
        ELSE IF BadScore(score) THEN NullScore("Invalid score returned", 502, cors)
        ELSE ScoreResponse(score.value, cors)

IntentRetriesOnce(s) ==
    IF ~Ok(s.up.status) /\ s.calls < 2
    THEN [s EXCEPT !.pc = "fetch", !.calls = @ + 1, !.up = NoReply]
    ELSE [s EXCEPT !.pc = "done", !.resp = IntentResponse(s.up, getCorsOrigin(s.req))]
\* the invocation after lines 118-133: it returns, whatever the reply was
IntentAfterReply(s) ==
    [s EXCEPT !.pc = "done", !.resp = IntentResponse(s.up, getCorsOrigin(s.req))]

\* the upstream body is read: text() of a failure, json() of a success, and the
\* reply is parsed (lines 118-133, 135-138); json() rejects on a body that is
\* not JSON, and data.choices throws on a body null
IntentReplyRead(i) ==
    /\ slots[i].pc = "read"
    /\ slots' = [slots EXCEPT ![i] = IntentAfterReply(slots[i])]
    /\ UNCHANGED <<rateVars, vPath, vResult, env, swVars>>

----------------------------------------------------------------------------
(* The requests the handlers are driven with *)

Methods == {"OPTIONS", "GET", "POST", "PATCH", "DELETE", "PUT", "HEAD"}

T1 == ALLOWED_TABLES[1]
T2 == ALLOWED_TABLES[2]
GoodPath == <<ALLOWED_BASE, "/", T1>>

\* values of the path query parameter
ProxyPaths ==
    { GoodPath,
      <<ALLOWED_BASE, "/", T2>>,
      <<ALLOWED_BASE, "/", T1, "/", "rec", "A">>,
      <<"/", ALLOWED_BASE, "/", T1>>,
      <<ALLOWED_BASE, "/", T1, "/">>,
      <<ALLOWED_BASE, "/", T1, "?", "A", "=", "A", " ", "A">>,
      <<ALLOWED_BASE, "/", T2, "?", "A", "=", "A", "/", "A", "&", "A">>,
      <<"wrongBase", "/", T1>>,
      <<ALLOWED_BASE, "/", "wrongBase">>,
      <<ALLOWED_BASE, "/", T1, "/", "rec">>,
      <<ALLOWED_BASE, "/", T1, "/", ".", ".", "/", "A">>,
      <<ALLOWED_BASE, "/", "/", T1>>,
      <<ALLOWED_BASE, "/", T1, "?", "A", "=", ".", ".">>,
      <<ALLOWED_BASE>>,
      <<ALLOWED_BASE, "/", T1, "/", "rec", "A", "/", "A">>,
      <<>> }

Origins == {"", ALLOWED_ORIGINS[1], ALLOWED_ORIGINS[7], "https://evil.example"}

BaseRequest ==
    [ep |-> "airtable", method |-> "GET", hasPath |-> TRUE, path |-> GoodPath,
     origin |-> ALLOWED_ORIGINS[7], auth |-> "", cfip |-> "ip1", xff |-> <<>>,
     body |-> "obj"]

\* each group varies the inputs one part of the handlers reads
Requests ==
    {[BaseRequest EXCEPT !.method = m, !.path = p] : m \in Methods, p \in ProxyPaths}
    \cup {[BaseRequest EXCEPT !.method = m, !.hasPath = FALSE, !.path = <<>>] : m \in Methods}
    \cup {[BaseRequest EXCEPT !.ep = e, !.method = m, !.origin = o] :
             e \in {"airtable", "intent"}, m \in {"OPTIONS", "GET", "POST"}, o \in Origins}
    \cup {[BaseRequest EXCEPT !.ep = e, !.method = m, !.auth = a] :
             e \in {"airtable", "intent"}, m \in {"GET", "POST"}, a \in {"", "clientTok"}}
    \cup {[BaseRequest EXCEPT !.cfip = c, !.xff = x] :
             c \in {"", "ip1"}, x \in {<<>>, <<"">>, <<"ip2", "ip3">>}}
    \cup {[BaseRequest EXCEPT !.ep = "intent", !.method = m, !.body = b] :
             m \in {"OPTIONS", "GET", "POST"}, b \in {"obj", "null", "malformed"}}

----------------------------------------------------------------------------
(* Service worker: install, activate and fetch listeners                    *)
(*                                                                          *)
(* A URL is a host and a pathname; a pathname is the sequence of its        *)
(* segments ("/" is the empty sequence, "/api/leads" is <<"api","leads">>). *)
(* An Accept header is the sequence of its media types, empty when the      *)
(* header is absent.  The push and notificationclick listeners touch none   *)
(* of this state and are left out.                                          *)

CACHE_NAME == "prio-ai-v1"
SHELL_ASSETS ==
    << <<>>, <<"assets", "styles.css">>, <<"assets", "auth.css">>,
       <<"assets", "favicon.png">>, <<"assets", "logo_white.png">>,
       <<"assets", "icon-192.png">>, <<"assets", "icon-512.png">>, <<"manifest.json">> >>

\* self.location.origin
Self == "dashboard.prioai.ca"
FontsHosts == {"fonts.googleapis.com", "fonts.gstatic.com"}

SameOrigin(path) == [host |-> Self, path |-> path]
\* the request caches.match('/') looks up
RootKey == SameOrigin(<<>>)

NoEntry == [status |-> 0, body |-> ""]
EmptyStore == [k \in {} |-> NoEntry]

\* caches.keys()
CacheNames(cs) == {cs[i].name : i \in DOMAIN cs}

\* caches.open(name): the cache of that name, created last when there is none
Opened(cs, name) ==
    IF name \in CacheNames(cs) THEN cs ELSE Append(cs, [name |-> name, store |-> EmptyStore])

\* caches.delete(name)
Deleted(cs, name) == SelectSeq(cs, LAMBDA c : c.name # name)

\* caches.match(request): the entry of the first cache, in creation order,
\* that holds the request; NoEntry (undefined) when none does
Match(cs, key) ==
    IF \E i \in DOMAIN cs : key \in DOMAIN cs[i].store
    THEN cs[CHOOSE i \in DOMAIN cs :
                /\ key \in DOMAIN cs[i].store
                /\ \A j \in 1..(i - 1) : key \notin DOMAIN cs[j].store].store[key]
    ELSE NoEntry

StoreKeepsFirst(store, key, entry) ==
    IF key \in DOMAIN store THEN store
    ELSE [k \in DOMAIN store \cup {key} |-> IF k = key THEN entry ELSE store[k]]
\* cache.put(request, response): the entry of that request is replaced
StorePut(store, key, entry) ==
    [k \in DOMAIN store \cup {key} |-> IF k = key THEN entry ELSE store[k]]

\* caches.open(name).then(cache => cache.put(request, response))
PutIn(cs, name, key, entry) ==
    LET open == Opened(cs, name)
    IN  [i \in DOMAIN open |->
            IF open[i].name = name
            THEN [open[i] EXCEPT !.store = StorePut(@, key, entry)]
            ELSE open[i]]

\* what cache.addAll(SHELL_ASSETS) stores: the fetched shell documents
ShellEntry == [status |-> 200, body |-> "shell"]
RECURSIVE AddedAll(_, _)
AddedAll(cs, assets) ==
    IF assets = <<>> THEN cs
    ELSE AddedAll(PutIn(cs, CACHE_NAME, SameOrigin(Head(assets)), ShellEntry), Tail(assets))

StaleAlways(key) == TRUE
\* keys.filter(function(key) { return key !== CACHE_NAME; })
Stale(key) == key # CACHE_NAME

\* url.pathname.startsWith('/api/')
UnderApi(path) == Len(path) >= 2 /\ path[1] = "api"

\* accept && accept.includes('text/html')
AcceptsHtml(accept) == \E k \in DOMAIN accept : accept[k] = "text/html"

BranchWithoutApiSkip(req) ==
    IF req.method # "GET" THEN "pass"
    ELSE IF req.url.host # Self
    THEN (IF req.url.host \in FontsHosts THEN "fonts" ELSE "pass")
    ELSE IF AcceptsHtml(req.accept) THEN "html"
    ELSE "static"
\* the branch of the fetch listener a request takes (lines 41-84); "pass" is a
\* return before any respondWith
Branch(req) ==
    IF req.method # "GET" THEN "pass"
    ELSE IF req.url.host # Self
    THEN (IF req.url.host \in FontsHosts THEN "fonts" ELSE "pass")
    ELSE IF UnderApi(req.url.path) THEN "pass"
    ELSE IF AcceptsHtml(req.accept) THEN "html"
    ELSE "static"

StoresAny(reply) == TRUE
\* response && response.status === 200
Storable(reply) == reply.status = 200

NoRequest == [method |-> "", url |-> [host |-> "", path |-> <<>>], accept |-> <<>>]
NoResponse == [src |-> "none", status |-> 0, body |-> ""]
\* the page gets a network error: the promise given to respondWith rejected,
\* or resolved with undefined
NetworkError == [src |-> "error", status |-> 0, body |-> ""]
\* no respondWith: the browser performs the request itself
Default == [src |-> "browser", status |-> 0, body |-> ""]
FromCache(entry) == [src |-> "cache", status |-> entry.status, body |-> entry.body]
FromNetwork(reply) == [src |-> "network", status |-> reply.status, body |-> reply.body]

IdleEvent == [pc |-> "idle", req |-> NoRequest, branch |-> "", responded |-> FALSE,
              net |-> NoEntry, netCalls |-> 0, reads |-> 0, put |-> "none",
              resp |-> NoResponse]

NoWorker == [state |-> "parsed", skip |-> FALSE, keys |-> "idle", pending |-> {},
             claim |-> "none"]

\* install listener (lines 17-24), its synchronous part: caches.open is
\* called and skipWaiting() lets the worker activate without waiting
Install ==
    /\ worker.state = "parsed"
    /\ worker' = [worker EXCEPT !.state = "installing", !.skip = TRUE]
    /\ UNCHANGED <<cacheStorage, events, lastPut>>
    /\ UNCHANGED <<rateVars, pathVars, handlerVars>>

\* caches.open(CACHE_NAME) resolves; cache.addAll(SHELL_ASSETS) is called
InstallOpened ==
    /\ worker.state = "installing"
    /\ cacheStorage' = Opened(cacheStorage, CACHE_NAME)
    /\ worker' = [worker EXCEPT !.state = "adding"]
    /\ UNCHANGED <<events, lastPut>>
    /\ UNCHANGED <<rateVars, pathVars, handlerVars>>

\* addAll resolves: every asset was fetched with an ok status and all are
\* stored; the install event's waitUntil promise is fulfilled
AddAllResolves ==
    /\ worker.state = "adding"
    /\ cacheStorage' = AddedAll(cacheStorage, SHELL_ASSETS)
    /\ lastPut' = [k \in DOMAIN lastPut \cup {SameOrigin(SHELL_ASSETS[a]) : a \in DOMAIN SHELL_ASSETS} |->
                      IF k \in {SameOrigin(SHELL_ASSETS[a]) : a \in DOMAIN SHELL_ASSETS}
                      THEN ShellEntry ELSE lastPut[k]]
    /\ worker' = [worker EXCEPT !.state = "installed"]
    /\ UNCHANGED events
    /\ UNCHANGED <<rateVars, pathVars, handlerVars>>

\* addAll rejects (an asset failed to load): nothing is stored, the install
\* fails and the worker is discarded
AddAllRejects ==
    /\ worker.state = "adding"
    /\ worker' = [worker EXCEPT !.state = "redundant"]
    /\ UNCHANGED <<cacheStorage, events, lastPut>>
    /\ UNCHANGED <<rateVars, pathVars, handlerVars>>

\* activate listener (lines 27-37), its synchronous part: caches.keys() is
\* called inside waitUntil and clients.claim() is called right after
Activate ==
    /\ worker.state = "installed"
    /\ worker.skip
    /\ worker' = [worker EXCEPT !.state = "activating", !.keys = "asked",
                                !.claim = "pending"]
    /\ UNCHANGED <<cacheStorage, events, lastPut>>
    /\ UNCHANGED <<rateVars, pathVars, handlerVars>>

\* caches.keys() resolves: caches.delete is called for every stale name
KeysResolve ==
    /\ worker.keys = "asked"
    /\ LET stale == {n \in CacheNames(cacheStorage) : Stale(n)}
       IN  worker' = [worker EXCEPT !.keys = IF stale = {} THEN "done" ELSE "deleting",
                                    !.pending = stale]
    /\ UNCHANGED <<cacheStorage, events, lastPut>>
    /\ UNCHANGED <<rateVars, pathVars, handlerVars>>

\* one caches.delete(key) resolves; Promise.all resolves with the last one
DeleteResolves(name) ==
    /\ worker.keys = "deleting"
    /\ name \in worker.pending
    /\ cacheStorage' = Deleted(cacheStorage, name)
    /\ worker' = [worker EXCEPT !.pending = @ \ {name},
                                !.keys = IF worker.pending = {name} THEN "done" ELSE @]
    /\ UNCHANGED <<events, lastPut>>
    /\ UNCHANGED <<rateVars, pathVars, handlerVars>>

\* clients.claim() takes effect: the open clients are controlled by the worker
ClaimResolves ==
    /\ worker.claim = "pending"
    /\ worker' = [worker EXCEPT !.claim = "done"]
    /\ UNCHANGED <<cacheStorage, events, lastPut>>
    /\ UNCHANGED <<rateVars, pathVars, handlerVars>>

\* the activate event's waitUntil promise has settled: the worker is activated
\* and fetch events are dispatched to it
Activated ==
    /\ worker.state = "activating"
    /\ worker.keys = "done"
    /\ worker' = [worker EXCEPT !.state = "activated"]
    /\ UNCHANGED <<cacheStorage, events, lastPut>>
    /\ UNCHANGED <<rateVars, pathVars, handlerVars>>

\* fetch listener (lines 40-96), its synchronous part
FetchEvent(e, req) ==
    /\ worker.state = "activated"
    /\ events[e].pc = "idle"
    /\ LET b == Branch(req)
           ev == [IdleEvent EXCEPT !.req = req, !.branch = b]
       IN  events' = [events EXCEPT ![e] =
               IF b = "pass" THEN [ev EXCEPT !.pc = "done", !.resp = Default]
               ELSE IF b = "html"
               THEN [ev EXCEPT !.pc = "net", !.responded = TRUE, !.netCalls = 1]
               ELSE [ev EXCEPT !.pc = "match", !.responded = TRUE, !.reads = 1]]
    /\ UNCHANGED <<worker, cacheStorage, lastPut>>
    /\ UNCHANGED <<rateVars, pathVars, handlerVars>>

\* caches.match(event.request) resolves (lines 51-52, 75-76, 85-87)
MatchResolves(e) ==
    /\ events[e].pc = "match"
    /\ LET ev == events[e]
           cached == Match(cacheStorage, ev.req.url)
       IN  events' = [events EXCEPT ![e] =
               IF cached # NoEntry THEN [ev EXCEPT !.pc = "done", !.resp = FromCache(cached)]
               ELSE IF ev.branch = "html"
               THEN [ev EXCEPT !.pc = "matchRoot", !.reads = @ + 1]
               ELSE [ev EXCEPT !.pc = "net", !.netCalls = @ + 1]]
    /\ UNCHANGED <<worker, cacheStorage, lastPut>>
    /\ UNCHANGED <<rateVars, pathVars, handlerVars>>

\* caches.match('/') resolves (line 76)
MatchRootResolves(e) ==
    /\ events[e].pc = "matchRoot"
    /\ LET cached == Match(cacheStorage, RootKey)
       IN  events' = [events EXCEPT ![e] = [@ EXCEPT !.pc = "done", !.resp =
               IF cached # NoEntry THEN FromCache(cached) ELSE NetworkError]]
    /\ UNCHANGED <<worker, cacheStorage, lastPut>>
    /\ UNCHANGED <<rateVars, pathVars, handlerVars>>

\* fetch(event.request) resolves: the clone is handed to cache.put, which is
\* not awaited, and the response is returned (lines 52-56, 70-73, 87-93)
NetResolves(e, reply) ==
    /\ events[e].pc = "net"
    /\ events' = [events EXCEPT ![e] = [@ EXCEPT
           !.pc = "done", !.net = reply, !.resp = FromNetwork(reply),
           !.put = IF events[e].branch = "static" /\ ~Storable(reply)
                   THEN "none" ELSE "pending"]]
    /\ UNCHANGED <<worker, cacheStorage, lastPut>>
    /\ UNCHANGED <<rateVars, pathVars, handlerVars>>

\* fetch(event.request) rejects: the HTML branch falls back to the cache
\* (lines 74-77), the other two branches have no catch
NetRejects(e) ==
    /\ events[e].pc = "net"
    /\ events' = [events EXCEPT ![e] =
           IF events[e].branch = "html"
           THEN [@ EXCEPT !.pc = "match", !.reads = @ + 1]
           ELSE [@ EXCEPT !.pc = "done", !.resp = NetworkError]]
    /\ UNCHANGED <<worker, cacheStorage, lastPut>>
    /\ UNCHANGED <<rateVars, pathVars, handlerVars>>

\* caches.open(CACHE_NAME).then(cache => cache.put(event.request, clone)) completes
PutResolves(e) ==
    /\ events[e].put = "pending"
    /\ cacheStorage' = PutIn(cacheStorage, CACHE_NAME, events[e].req.url, events[e].net)
    /\ lastPut' = [k \in DOMAIN lastPut \cup {events[e].req.url} |->
                      IF k = events[e].req.url THEN events[e].net ELSE lastPut[k]]
    /\ events' = [events EXCEPT ![e] = [@ EXCEPT !.put = "done"]]
    /\ UNCHANGED worker
    /\ UNCHANGED <<rateVars, pathVars, handlerVars>>

\* the event and its cache write are over
EventOver(e) ==
    /\ events[e].pc = "done"
    /\ events[e].put # "pending"
    /\ events' = [events EXCEPT ![e] = IdleEvent]
    /\ UNCHANGED <<worker, cacheStorage, lastPut>>
    /\ UNCHANGED <<rateVars, pathVars, handlerVars>>

----------------------------------------------------------------------------
(* State after module load, and the two leaf components run on their own *)

NotRun == [valid |-> FALSE, error |-> "not run"]

\* const rateLimits = new Map(); no call made yet
RateInit ==
    /\ now = 0
    /\ rateLimits = Empty
    /\ allowed = TRUE
    /\ lastKey = NoKey
    /\ winLog = Empty

PathInit ==
    /\ vPath = <<>>
    /\ vResult = NotRun

Slots == {"r1"}
Envs == {[AIRTABLE_TOKEN |-> "srvA", OPENAI_TOKEN |-> "srvO"],
         [AIRTABLE_TOKEN |-> "", OPENAI_TOKEN |-> ""]}

\* no invocation running
HandlerInit ==
    /\ env \in Envs
    /\ slots = [i \in Slots |-> IdleSlot]

\* the worker script is not registered: no cache of this worker's, no event
SwInit ==
    /\ worker = NoWorker
    /\ cacheStorage = <<>>
    /\ events = [e \in {"e1"} |-> IdleEvent]
    /\ lastPut = EmptyStore

\* entries other clients left in the table at time 0
Crowds == {[n |-> k, resetAt |-> RATE_WINDOW] : k \in {1, CLEANUP_SIZE - 1, CLEANUP_SIZE}}

RateKeys == {"ip1", NoKey}
TickSteps == {1, RATE_WINDOW}

\* one call checkRateLimit(ip)
checkRateLimit(ip) ==
    /\ ip # NoKey => Bumped(RecordOf(rateLimits, ip, now), now).count <= RATE_LIMIT + MaxOver
    /\ rateLimits' = TableAfter(rateLimits, crowd, ip, now)
    /\ crowd' = CrowdAfter(rateLimits, crowd, ip, now)
    /\ allowed' = Allows(rateLimits, ip, now)
    /\ lastKey' = ip
    /\ winLog' = WinLogAfter(winLog, ip, now)
    /\ UNCHANGED now

\* time passes between two calls
Tick(d) ==
    /\ now + d <= MaxWindows * RATE_WINDOW + MaxSlack
    /\ (now + d) % RATE_WINDOW <= MaxSlack
    /\ now' = now + d
    /\ UNCHANGED <<rateLimits, crowd, allowed, lastKey, winLog>>

InitRate ==
    /\ RateInit
    /\ crowd \in {NoCrowd} \cup Crowds
    /\ PathInit
    /\ HandlerInit
    /\ env.AIRTABLE_TOKEN # "" /\ env.OPENAI_TOKEN # ""
    /\ SwInit

RateCall == \E ip \in RateKeys : checkRateLimit(ip) /\ UNCHANGED <<pathVars, handlerVars, swVars>>
Clock == \E d \in TickSteps : Tick(d) /\ UNCHANGED <<pathVars, handlerVars, swVars>>

NextRate == RateCall \/ Clock

SpecRate == InitRate /\ [][NextRate]_vars

\* every token sequence of up to MaxPathLen tokens over PathTokens
PathTokens == {"/", ".", "?", ALLOWED_BASE, ALLOWED_TABLES[1], "rec", "A"}
ShortPaths == UNION {[1..k -> PathTokens] : k \in 0..MaxPathLen}

\* one call validateAirtablePath(p)
Validate(p) ==
    /\ vPath' = p
    /\ vResult' = validateAirtablePath(p)
    /\ UNCHANGED <<rateVars, handlerVars, swVars>>

InitPath ==
    /\ RateInit
    /\ crowd = NoCrowd
    /\ PathInit
    /\ HandlerInit
    /\ env.AIRTABLE_TOKEN # "" /\ env.OPENAI_TOKEN # ""
    /\ SwInit

\* the validator is called once, on any path
NextPath == vResult = NotRun /\ \E p \in ShortPaths \cup ProxyPaths : Validate(p)

SpecPath == InitPath /\ [][NextPath]_vars

----------------------------------------------------------------------------
(* The rate limiter with a table near the size that starts the sweep *)

CleanupKeys == {"ip1", "ip2"}

\* entries of silent clients whose windows run out at time 0 or at RATE_WINDOW
CleanupCrowds ==
    {[n |-> k, resetAt |-> r] : k \in {1, CLEANUP_SIZE - 1, CLEANUP_SIZE}, r \in {0, RATE_WINDOW}}

\* "ip1" has used up its window, or no key has called yet
InitCleanup ==
    /\ now = 0
    /\ \/ rateLimits = Empty /\ winLog = Empty
       \/ /\ rateLimits = [k \in {"ip1"} |-> [count |-> RATE_LIMIT, resetAt |-> RATE_WINDOW]]
          /\ winLog = [k \in {"ip1"} |-> [start |-> 0, calls |-> RATE_LIMIT]]
    /\ allowed = TRUE
    /\ lastKey = NoKey
    /\ crowd \in CleanupCrowds
    /\ PathInit
    /\ HandlerInit
    /\ env.AIRTABLE_TOKEN # "" /\ env.OPENAI_TOKEN # ""
    /\ SwInit

CleanupCall ==
    \E ip \in CleanupKeys :
        /\ CountFollowed(Bumped(RecordOf(rateLimits, ip, now), now).count)
        /\ checkRateLimit(ip)
        /\ UNCHANGED <<pathVars, handlerVars, swVars>>

NextCleanup == CleanupCall \/ Clock

SpecCleanup == InitCleanup /\ [][NextCleanup]_vars

----------------------------------------------------------------------------
(* The service worker from registration on, one fetch event at a time *)

OldEntry == [status |-> 200, body |-> "old"]
OldCache == "prio-ai-v0"
ApiLeads == SameOrigin(<<"api", "leads">>)

\* what earlier versions of the worker left in the origin's CacheStorage
OldStore == [k \in {RootKey, ApiLeads} |-> OldEntry]
OldStorages ==
    { <<>>,
      <<[name |-> OldCache, store |-> OldStore]>>,
      <<[name |-> OldCache, store |-> OldStore],
        [name |-> CACHE_NAME, store |-> [k \in {ApiLeads} |-> OldEntry]]>> }

HtmlAccept == <<"text/html", "application/xhtml+xml">>
AnyAccept == <<"*/*">>

Request(method, url, accept) == [method |-> method, url |-> url, accept |-> accept]

\* the requests of the pages the worker controls
SwRequests ==
    {Request("GET", SameOrigin(p), a) : p \in {<<>>, <<"page">>}, a \in {HtmlAccept, <<>>}}
    \cup {Request("GET", SameOrigin(<<"app.js">>), AnyAccept)}
    \cup {Request(m, ApiLeads, a) : m \in {"GET", "POST"}, a \in {HtmlAccept, AnyAccept}}
    \cup {Request(m, [host |-> "fonts.googleapis.com", path |-> <<"css">>], AnyAccept) :
              m \in {"GET", "POST"}}
    \cup {Request("GET", [host |-> "fonts.gstatic.com", path |-> <<"f.woff2">>], <<>>)}
    \cup {Request("GET", [host |-> "api.airtable.com", path |-> <<"v0">>], a) :
              a \in {HtmlAccept, AnyAccept}}
    \cup {Request("POST", SameOrigin(<<"page">>), HtmlAccept)}

\* what the network answers
NetReplies == {[status |-> 200, body |-> "n1"], [status |-> 404, body |-> "n2"]}

InitSW ==
    /\ RateInit
    /\ crowd = NoCrowd
    /\ PathInit
    /\ HandlerInit
    /\ env.AIRTABLE_TOKEN # "" /\ env.OPENAI_TOKEN # ""
    /\ worker = NoWorker
    /\ cacheStorage \in OldStorages
    /\ events = [e \in {"e1"} |-> IdleEvent]
    /\ lastPut = EmptyStore

NextSW ==
    \/ Install
    \/ InstallOpened
    \/ AddAllResolves
    \/ AddAllRejects
    \/ Activate
    \/ KeysResolve
    \/ \E name \in {OldCache, CACHE_NAME} : DeleteResolves(name)
    \/ ClaimResolves
    \/ Activated
    \/ \E e \in DOMAIN events, req \in SwRequests : FetchEvent(e, req)
    \/ \E e \in DOMAIN events : MatchResolves(e)
    \/ \E e \in DOMAIN events : MatchRootResolves(e)
    \/ \E e \in DOMAIN events, reply \in NetReplies : NetResolves(e, reply)
    \/ \E e \in DOMAIN events : NetRejects(e)
    \/ \E e \in DOMAIN events : PutResolves(e)
    \/ \E e \in DOMAIN events : EventOver(e)

SpecSW == InitSW /\ [][NextSW]_vars

----------------------------------------------------------------------------
(* Two fetch events of the activated worker in flight at once *)

PageUrl == SameOrigin(<<"page">>)

\* the same URL asked for as a document and as a subresource
RaceRequests ==
    {Request("GET", PageUrl, a) : a \in {HtmlAccept, AnyAccept}}

RaceReplies ==
    {[status |-> 200, body |-> "n1"], [status |-> 200, body |-> "n3"],
     [status |-> 404, body |-> "n2"]}

\* the worker after install and activation, nothing stored but the shell
InitRace ==
    /\ RateInit
    /\ crowd = NoCrowd
    /\ PathInit
    /\ HandlerInit
    /\ env.AIRTABLE_TOKEN # "" /\ env.OPENAI_TOKEN # ""
    /\ worker = [state |-> "activated", skip |-> TRUE, keys |-> "done", pending |-> {},
                 claim |-> "done"]
    /\ cacheStorage \in {AddedAll(<<>>, SHELL_ASSETS),
                          PutIn(AddedAll(<<>>, SHELL_ASSETS), CACHE_NAME, PageUrl, OldEntry)}
    /\ events = [e \in {"e1", "e2"} |-> IdleEvent]
    /\ lastPut = [k \in {SameOrigin(SHELL_ASSETS[a]) : a \in DOMAIN SHELL_ASSETS} |-> ShellEntry]

NextRace ==
    \/ \E e \in DOMAIN events, req \in RaceRequests : FetchEvent(e, req)
    \/ \E e \in DOMAIN events : MatchResolves(e)
    \/ \E e \in DOMAIN events : MatchRootResolves(e)
    \/ \E e \in DOMAIN events, reply \in RaceReplies : NetResolves(e, reply)
    \/ \E e \in DOMAIN events : NetRejects(e)
    \/ \E e \in DOMAIN events : PutResolves(e)

SpecRace == InitRace /\ [][NextRace]_vars

----------------------------------------------------------------------------
(* The two handlers serving requests *)

\* the table as "ip1" leaves it after RATE_LIMIT - 1 calls at time 0
NearLimit == [k \in {"ip1"} |-> [count |-> RATE_LIMIT - 1, resetAt |-> RATE_WINDOW]]
NearLimitLog == [k \in {"ip1"} |-> [start |-> 0, calls |-> RATE_LIMIT - 1]]

Init ==
    /\ now = 0
    /\ \/ rateLimits = Empty /\ winLog = Empty
       \/ rateLimits = NearLimit /\ winLog = NearLimitLog
    /\ allowed = TRUE
    /\ lastKey = NoKey
    /\ crowd = NoCrowd
    /\ PathInit
    /\ HandlerInit
    /\ SwInit

Next ==
    \/ \E i \in Slots, req \in Requests : AirtableReceive(i, req)
    \/ \E i \in Slots : AirtableBodyRead(i)
    \/ \E i \in Slots, reply \in AirtableReplies : AirtableFetchResolves(i, reply)
    \/ \E i \in Slots : AirtableFetchRejects(i)
    \/ \E i \in Slots : AirtableJsonRead(i)
    \/ \E i \in Slots, req \in Requests : IntentReceive(i, req)
    \/ \E i \in Slots : IntentRequestJson(i)
    \/ \E i \in Slots, reply \in IntentReplies : IntentFetchResolves(i, reply)
    \/ \E i \in Slots : IntentFetchRejects(i)
    \/ \E i \in Slots : IntentReplyRead(i)
    \/ \E i \in Slots : Release(i)

Spec == Init /\ [][Next]_vars

----------------------------------------------------------------------------
(* The Airtable proxy alone, with every await settling *)

ProxyRequests ==
    {[BaseRequest EXCEPT !.method = m, !.hasPath = h, !.path = p] :
        m \in {"OPTIONS", "GET", "POST", "HEAD"},
        h \in {TRUE},
        p \in {GoodPath, <<"wrongBase", "/", T1>>, <<"/", ALLOWED_BASE, "/", T2>>, <<>>}}
    \cup {[BaseRequest EXCEPT !.method = m, !.hasPath = FALSE, !.path = <<>>] :
              m \in {"GET", "POST"}}

ProxyReceive == \E i \in Slots, req \in ProxyRequests : AirtableReceive(i, req)
ProxyBodyRead == \E i \in Slots : AirtableBodyRead(i)
ProxyFetchSettles ==
    \E i \in Slots :
        \/ \E reply \in AirtableReplies : AirtableFetchResolves(i, reply)
        \/ AirtableFetchRejects(i)
ProxyJsonRead == \E i \in Slots : AirtableJsonRead(i)
ProxyRelease == \E i \in Slots : Release(i)

NextProxy ==
    \/ ProxyReceive
    \/ ProxyBodyRead
    \/ ProxyFetchSettles
    \/ ProxyJsonRead
    \/ ProxyRelease

\* the runtime resumes a handler whose awaited promise has settled, and the
\* upstream call completes or fails
SpecProxy ==
    /\ Init
    /\ [][NextProxy]_vars
    /\ WF_vars(ProxyBodyRead)
    /\ WF_vars(ProxyFetchSettles)
    /\ WF_vars(ProxyJsonRead)

----------------------------------------------------------------------------
(* Several invocations of the proxy in flight at once: an invocation runs   *)
(* from one await to the next without interruption, and the invocations     *)
(* interleave at their awaits                                               *)

ConcurrentSlots == {"r1", "r2", "r3"}

\* the calls "ip1" has made in the current window when the invocations start
CallsBefore(key) == IF key = "ip1" THEN RATE_LIMIT - 2 ELSE 0

ConcurrentRequests ==
    {[BaseRequest EXCEPT !.method = m, !.cfip = c, !.xff = x] :
        m \in {"OPTIONS", "GET", "POST"},
        c \in {"ip1", ""}, x \in {<<"ip2", "ip3">>}}

ConcurrentReplies ==
    {[status |-> st, kind |-> "json", data |-> "d1", content |-> <<>>] : st \in {200, 429}}

InitConcurrent ==
    /\ now = 0
    /\ rateLimits = [k \in {"ip1"} |-> [count |-> CallsBefore(k), resetAt |-> RATE_WINDOW]]
    /\ winLog = [k \in {"ip1"} |-> [start |-> 0, calls |-> CallsBefore(k)]]
    /\ allowed = TRUE
    /\ lastKey = NoKey
    /\ crowd = NoCrowd
    /\ PathInit
    /\ env \in Envs
    /\ env.AIRTABLE_TOKEN # ""
    /\ slots = [i \in ConcurrentSlots |-> IdleSlot]
    /\ SwInit

NextConcurrent ==
    \/ \E i \in DOMAIN slots, req \in ConcurrentRequests : AirtableReceive(i, req)
    \/ \E i \in DOMAIN slots : AirtableBodyRead(i)
    \/ \E i \in DOMAIN slots, reply \in ConcurrentReplies : AirtableFetchResolves(i, reply)
    \/ \E i \in DOMAIN slots : AirtableFetchRejects(i)
    \/ \E i \in DOMAIN slots : AirtableJsonRead(i)

SpecConcurrent == InitConcurrent /\ [][NextConcurrent]_vars

----------------------------------------------------------------------------
(* C1: for a key with no prior record, the calls of one window are allowed  *)
(* up to and including the RATE_LIMIT-th and refused from then on; the      *)
(* stored count is the number of calls made in the window and resetAt is    *)
(* the window's start plus RATE_WINDOW, so the first call after the window  *)
(* ran out is allowed again with count 1 and a fresh window.                *)
C1_RateWindow ==
    lastKey # NoKey =>
        /\ lastKey \in DOMAIN rateLimits
        /\ lastKey \in DOMAIN winLog
        /\ allowed <=> (winLog[lastKey].calls <= RATE_LIMIT)
        /\ rateLimits[lastKey].count = winLog[lastKey].calls
        /\ rateLimits[lastKey].resetAt = winLog[lastKey].start + RATE_WINDOW

\* a second window in which the limit was passed again
C1_Witness ==
    /\ lastKey = "ip1"
    /\ winLog["ip1"].start > 0
    /\ winLog["ip1"].calls = RATE_LIMIT + 1
    /\ ~allowed

----------------------------------------------------------------------------
(* C4: the validator accepts exactly the paths whose segments are the       *)
(* allowed base, an allowed table and, optionally, a record id "rec" plus   *)
(* one or more letters or digits, and that hold neither ".." nor "//";      *)
(* a path of two or three segments with a wrong base and an allowed table   *)
(* is refused with "Invalid base"; every path holding ".." or "//" is       *)
(* refused.                                                                *)

\* the segments of the path before its first "?", read left to right
RECURSIVE SegmentsFrom(_, _, _)
SegmentsFrom(s, cur, acc) ==
    LET closed == IF cur = <<>> THEN acc ELSE Append(acc, cur)
    IN  IF s = <<>> \/ Head(s) = "?" THEN closed
        ELSE IF Head(s) = "/" THEN SegmentsFrom(Tail(s), <<>>, closed)
        ELSE SegmentsFrom(Tail(s), Append(cur, Head(s)), acc)
Segments(path) == SegmentsFrom(path, <<>>, <<>>)

IsTable(seg) == \E i \in DOMAIN ALLOWED_TABLES : seg = <<ALLOWED_TABLES[i]>>
IsRecordId(seg) ==
    \E rest \in UNION {[1..k -> Alnum] : k \in 1..(Len(seg) - 1)} : seg = <<"rec">> \o rest
Adjacent(path, tok) == \E i \in DOMAIN path : i > 1 /\ path[i - 1] = tok /\ path[i] = tok

WellFormed(path) ==
    LET segs == Segments(path)
    IN  /\ Len(segs) \in {2, 3}
        /\ segs[1] = <<ALLOWED_BASE>>
        /\ IsTable(segs[2])
        /\ Len(segs) = 3 => IsRecordId(segs[3])
        /\ ~Adjacent(path, ".")
        /\ ~Adjacent(path, "/")

C4_ValidatorAcceptance ==
    vResult # NotRun =>
        LET segs == Segments(vPath)
        IN  /\ vResult.valid <=> WellFormed(vPath)
            /\ (Len(segs) \in {2, 3} /\ segs[1] # <<ALLOWED_BASE>> /\ IsTable(segs[2]))
                   => vResult = Invalid("Invalid base")
            /\ (Adjacent(vPath, ".") \/ Adjacent(vPath, "/")) => ~vResult.valid

\* base/table/recA was validated and accepted
C4_Witness ==
    /\ vResult = Valid
    /\ Len(Segments(vPath)) = 3
    /\ vPath[Len(vPath)] = "A"

----------------------------------------------------------------------------
(* Claims about the handlers *)

\* invocations of the Airtable proxy that are not preflights
Proxied == {i \in Slots : slots[i].req.ep = "airtable" /\ slots[i].req.method # "OPTIONS"}
Finished == {i \in Slots : slots[i].pc = "done"}

\* C2: every upstream fetch of the Airtable proxy goes to
\* https://api.airtable.com/v0/<ALLOWED_BASE>/<allowed table>[/<rec + letters
\* or digits>], optionally followed by "?" and a query: no other base or
\* table, no ".." and no empty segment, also when the path parameter has a
\* leading or trailing slash.
ContainedUrl(url) ==
    LET rest == Tail(url)
        q == IndexOf(rest, "?")
        target == IF q = 0 THEN rest ELSE SubSeq(rest, 1, q - 1)
    IN  /\ url[1] = ApiRoot
        /\ Len(target) >= 3
        /\ SubSeq(target, 1, 3) \in {<<ALLOWED_BASE, "/", T1>>, <<ALLOWED_BASE, "/", T2>>}
        /\ Len(target) > 3 =>
              /\ Len(target) >= 6
              /\ target[4] = "/"
              /\ target[5] = "rec"
              /\ \A k \in 6..Len(target) : target[k] \in Alnum

C2_SsrfContained ==
    \A i \in Slots :
        (slots[i].req.ep = "airtable" /\ slots[i].call # NoCall)
            => ContainedUrl(slots[i].call.url)

\* C3: the Authorization header of every upstream call is "Bearer " plus the
\* environment's token for that upstream, whatever the client sent: it is the
\* same for all requests under one environment, and never the client's value.
ServerToken(ep) == IF ep = "airtable" THEN env.AIRTABLE_TOKEN ELSE env.OPENAI_TOKEN

C3_ServerTokenOnly ==
    \A i \in Slots :
        slots[i].call # NoCall =>
            /\ slots[i].call.auth = <<"Bearer ", ServerToken(slots[i].req.ep)>>
            /\ ServerToken(slots[i].req.ep) # ""
            /\ slots[i].req.auth # "" => slots[i].call.auth[2] # slots[i].req.auth

\* an upstream call is in flight for a request that carried its own token
C3_Witness ==
    \E i \in Slots :
        /\ slots[i].req.auth = "clientTok"
        /\ slots[i].pc = "fetch"
        /\ slots[i].call.auth = <<"Bearer ", "srvA">>

\* C5: a request that is not a preflight is answered by the first check that
\* fails, in the order rate limit, path parameter present (and not empty),
\* path valid, token configured: 429, 400 "Missing path parameter", 400 with
\* the validator's reason, 500; none of these makes an upstream call.
OverLimit(key) == key \in DOMAIN winLog /\ winLog[key].calls > RATE_LIMIT
PathMissing(req) == ~req.hasPath \/ req.path = <<>>

C5_RejectionOrder ==
    \A i \in Proxied :
        LET s == slots[i]
            over == OverLimit(ClientKey(s.req))
            missing == PathMissing(s.req)
            bad == ~WellFormed(s.req.path)
            unset == env.AIRTABLE_TOKEN = ""
            rejected(status, msg) ==
                /\ s.pc = "done"
                /\ s.resp.status = status
                /\ s.resp.error = msg
                /\ s.calls = 0
                /\ s.call = NoCall
        IN  /\ over => rejected(429, "Rate limit exceeded. Please try again later.")
            /\ (~over /\ missing) => rejected(400, "Missing path parameter")
            /\ (~over /\ ~missing /\ bad)
                  => rejected(400, validateAirtablePath(s.req.path).error)
            /\ (~over /\ ~missing /\ ~bad /\ unset)
                  => rejected(500, "Server configuration error")
            /\ (~over /\ ~missing /\ ~bad /\ ~unset /\ s.pc = "done")
                  => s.resp.error \notin {"Rate limit exceeded. Please try again later.",
                                          "Missing path parameter",
                                          "Server configuration error"}

\* a key over its limit is answered 429 although its path is invalid and no
\* token is configured
C5_Witness ==
    \E i \in Proxied :
        /\ slots[i].pc = "done"
        /\ slots[i].resp.status = 429
        /\ ~WellFormed(slots[i].req.path)
        /\ env.AIRTABLE_TOKEN = ""

\* C6: an upstream response that is not 2xx, whatever its body, is answered
\* with 502 when the upstream status is 500 or more and with the upstream
\* status otherwise, and with the fixed error body.
C6_UpstreamMasked ==
    \A i \in Proxied \cap Finished :
        (slots[i].up # NoReply /\ ~Ok(slots[i].up.status)) =>
            /\ slots[i].resp.status =
                  (IF slots[i].up.status >= 500 THEN 502 ELSE slots[i].up.status)
            /\ slots[i].resp.error = "Database request failed"
            /\ slots[i].resp.data = ""

\* C7: a request that passes the rate, path and token checks makes exactly
\* one upstream call, and a 2xx JSON answer to it is relayed with status 200
\* and this call's own body.
PassesChecks(req) ==
    /\ ~OverLimit(ClientKey(req))
    /\ ~PathMissing(req)
    /\ WellFormed(req.path)
    /\ env.AIRTABLE_TOKEN # ""

C7_OneCallOwnBody ==
    \A i \in Proxied \cap Finished :
        PassesChecks(slots[i].req) =>
            /\ slots[i].calls = 1
            /\ (slots[i].up.kind = "json" /\ Ok(slots[i].up.status)) =>
                  (slots[i].resp.status = 200 /\ slots[i].resp.data = slots[i].up.data)

\* C8: a request whose method is none of GET, POST, PATCH, DELETE, OPTIONS
\* never makes an upstream call and, when the other checks let it through,
\* is answered 400 or 405.
Forwardable == {"GET", "POST", "PATCH", "DELETE"}

C8_OnlyListedMethods ==
    \A i \in Proxied :
        slots[i].req.method \notin Forwardable =>
            /\ slots[i].call = NoCall
            /\ (slots[i].pc = "done" /\ PassesChecks(slots[i].req))
                  => slots[i].resp.status \in {400, 405}

\* C9: the Access-Control-Allow-Origin of every response of either handler is
\* in ALLOWED_ORIGINS; it is the request's Origin exactly when that is in the
\* list, and the first entry otherwise.
C9_CorsAllowList ==
    \A i \in Finished :
        LET origin == slots[i].req.origin
            acao == slots[i].resp.acao
        IN  /\ acao \in Range(ALLOWED_ORIGINS)
            /\ (acao = origin) <=> (origin \in Range(ALLOWED_ORIGINS))
            /\ origin \notin Range(ALLOWED_ORIGINS) => acao = ALLOWED_ORIGINS[1]

\* a success relayed to a request from an origin outside the list
C9_Witness ==
    \E i \in Finished :
        /\ slots[i].req.origin = "https://evil.example"
        /\ slots[i].resp.status = 200
        /\ slots[i].resp.data = "d2"
        /\ slots[i].resp.acao = ALLOWED_ORIGINS[1]

\* C10: a POST to the intent handler is answered either 200 with a score in
\* 1..5 or with another status, score null and an error; a reply without any
\* digit, and the reply "7", give 502 "Invalid score returned"; "4" gives
\* score 4; a 200 carries a score whose digit the reply holds.
Scored == {i \in Finished : slots[i].req.ep = "intent" /\ slots[i].req.method = "POST"}

C10_ScoreContract ==
    \A i \in Scored :
        LET r == slots[i].resp
            up == slots[i].up
            parsed == up # NoReply /\ Ok(up.status) /\ up.kind = "json"
            invalid == NullScore("Invalid score returned", 502, r.acao)
        IN  /\ \/ r.status = 200 /\ r.scoreField = "number" /\ r.score \in 1..5 /\ r.error = ""
               \/ r.status # 200 /\ r.scoreField = "null" /\ r.error # ""
            /\ (parsed /\ \A k \in DOMAIN up.content : ~IsDigit(up.content[k])) => r = invalid
            /\ (parsed /\ up.content = <<"7">>) => r = invalid
            /\ (parsed /\ up.content = <<"4">>) => r = ScoreResponse(4, r.acao)
            /\ r.status = 200 =>
                  \E k \in DOMAIN up.content : up.content[k] = Digits[r.score + 1]

\* the reply "7" was refused
C10_Witness ==
    \E i \in Scored :
        /\ slots[i].up.content = <<"7">>
        /\ slots[i].up.status = 200
        /\ slots[i].resp.status = 502
        /\ slots[i].resp.error = "Invalid score returned"

\* C11: an invocation of the intent handler makes at most one upstream call;
\* a method other than POST is answered 405 and an unset OPENAI_TOKEN 500,
\* both without any upstream call; an upstream answer that is not 2xx is
\* answered 502 "AI scoring failed", and a 2xx answer whose reply is no
\* number in 1..5 is answered 502, both after exactly one upstream call.
IntentRuns == {i \in Slots : slots[i].req.ep = "intent" /\ slots[i].req.method # "OPTIONS"}

\* a reply that holds no digit, or starts with a letter, a sign or a digit above 5
Malformed(content) ==
    \/ \A k \in DOMAIN content : ~IsDigit(content[k])
    \/ content[1] \in {"6", "7", "a", "-"}

C11_OneCallNoRetry ==
    \A i \in IntentRuns :
        LET s == slots[i]
            answered(status, msg, n) ==
                s.pc = "done" /\ s.resp.status = status /\ s.resp.error = msg /\ s.calls = n
        IN  /\ s.calls <= 1
            /\ s.req.method # "POST" => answered(405, "Method not allowed", 0)
            /\ (s.req.method = "POST" /\ env.OPENAI_TOKEN = "")
                  => answered(500, "Server configuration error", 0)
            /\ (s.up # NoReply /\ s.pc = "done" /\ ~Ok(s.up.status))
                  => answered(502, "AI scoring failed", 1)
            /\ (s.up # NoReply /\ s.pc = "done" /\ Ok(s.up.status) /\ s.up.kind = "json"
                    /\ Malformed(s.up.content))
                  => answered(502, "Invalid score returned", 1)
            /\ s.call = NoCall => s.calls = 0

\* an upstream 429 was answered 502 after one call
C11_Witness ==
    \E i \in IntentRuns :
        /\ slots[i].pc = "done"
        /\ slots[i].up.status = 429
        /\ slots[i].resp.status = 502
        /\ slots[i].calls = 1

----------------------------------------------------------------------------
(* Claims about the service worker *)

Handled == {e \in DOMAIN events : events[e].pc # "idle"}
Answered == {e \in DOMAIN events : events[e].pc = "done"}
ApiUrl(url) == url.host = Self /\ Len(url.path) >= 2 /\ url.path[1] = "api"

\* C12: a request that is not a GET, or goes to another origin than the two
\* fonts hosts, or is same-origin with a path under /api/, leaves the
\* listener without respondWith, without a cache read, a network fetch of the
\* worker's or a cache write, so it is never answered from the cache, whatever
\* the cache holds, and the worker never writes an entry for an /api/ URL.
PassThroughClass(req) ==
    \/ req.method # "GET"
    \/ req.url.host \notin {Self, "fonts.googleapis.com", "fonts.gstatic.com"}
    \/ ApiUrl(req.url)

C12_PassThrough ==
    /\ \A e \in Handled :
           PassThroughClass(events[e].req) =>
               /\ ~events[e].responded
               /\ events[e].reads = 0
               /\ events[e].netCalls = 0
               /\ events[e].put = "none"
               /\ events[e].resp = Default
    /\ \A key \in DOMAIN lastPut : ~ApiUrl(key)
    /\ \A i \in DOMAIN cacheStorage :
           \A key \in DOMAIN cacheStorage[i].store :
               ApiUrl(key) => cacheStorage[i].store[key] = OldEntry

\* a GET of /api/leads was passed through while the current cache holds an
\* entry for that URL
C12_Witness ==
    \E e \in Answered :
        /\ events[e].req = Request("GET", ApiLeads, AnyAccept)
        /\ events[e].resp = Default
        /\ Match(cacheStorage, ApiLeads) = OldEntry
        /\ worker.state = "activated"

\* C13: a same-origin GET that accepts text/html goes to the network first;
\* when the network fetch fails it is answered with the cached copy of the
\* request if there is one and with the cached root document otherwise, and
\* never with a network error.
Navigations == {e \in Handled : events[e].branch = "html"}

C13_HtmlFallback ==
    \A e \in Navigations :
        LET ev == events[e]
            own == Match(cacheStorage, ev.req.url)
            root == Match(cacheStorage, RootKey)
        IN  /\ ev.responded
            /\ ev.netCalls = 1
            /\ ev.pc = "net" => ev.reads = 0
            /\ (ev.pc = "done" /\ ev.net = NoEntry) =>
                  /\ ev.reads >= 1
                  /\ ev.resp = FromCache(IF own # NoEntry THEN own ELSE root)
                  /\ root # NoEntry
            /\ ev.pc = "done" => ev.resp.src \in {"network", "cache"}

\* /page was not cached when the network failed: the root document was served
C13_Witness ==
    \E e \in Navigations :
        /\ events[e].pc = "done"
        /\ events[e].req.url = SameOrigin(<<"page">>)
        /\ events[e].reads = 2
        /\ events[e].resp = FromCache(ShellEntry)

\* C14: a same-origin GET that is neither under /api/ nor an HTML request is
\* answered from the cache without a network fetch on a hit; on a miss one
\* network fetch is made, its response is returned, and a cache write is
\* started for it exactly when its status is 200.
StaticRequests ==
    {e \in Handled : /\ events[e].req.method = "GET"
                     /\ events[e].req.url.host = Self
                     /\ ~ApiUrl(events[e].req.url)
                     /\ "text/html" \notin Range(events[e].req.accept)}

C14_CacheFirst ==
    \A e \in StaticRequests :
        LET ev == events[e]
        IN  /\ ev.netCalls <= 1
            /\ ev.reads = 1
            /\ ev.resp.src = "cache" => (ev.netCalls = 0 /\ ev.put = "none")
            /\ ev.pc = "net" => ev.put = "none"
            /\ ev.net # NoEntry =>
                  /\ ev.netCalls = 1
                  /\ ev.resp = FromNetwork(ev.net)
                  /\ ev.put # "none" <=> ev.net.status = 200
            /\ (ev.net # NoEntry /\ ev.net.status # 200) =>
                  Match(cacheStorage, ev.req.url) = NoEntry

\* a 404 for /app.js was returned and not stored
C14_Witness ==
    \E e \in StaticRequests :
        /\ events[e].pc = "done"
        /\ events[e].req.url = SameOrigin(<<"app.js">>)
        /\ events[e].resp = [src |-> "network", status |-> 404, body |-> "n2"]
        /\ events[e].put = "none"

\* C15: the open clients are claimed only after every cache with another
\* name than CACHE_NAME is deleted: no client is controlled by the worker,
\* and no fetch event reads the cache, while such a cache exists; once the
\* worker is activated the CACHE_NAME cache is the only cache.
C15_DeleteThenClaim ==
    /\ worker.claim = "done" => CacheNames(cacheStorage) \subseteq {CACHE_NAME}
    /\ (\E e \in Handled : events[e].reads > 0)
          => CacheNames(cacheStorage) \subseteq {CACHE_NAME}
    /\ worker.state = "activated" => CacheNames(cacheStorage) = {CACHE_NAME}

----------------------------------------------------------------------------
(* C16: the states of a proxy request *)

Forwarded(s) == s.call # NoCall /\ s.pc # "done"
RateLimitedEnd(s) ==
    s.resp = ErrorResponse("Rate limit exceeded. Please try again later.", 429, s.resp.acao)
InvalidEnd(s) ==
    /\ s.resp.status = 400
    /\ s.resp.error \in {"Missing path parameter", "Invalid path", "Invalid path structure",
                         "Invalid base", "Invalid table", "Invalid record ID format",
                         "Invalid path characters"}
    /\ s.call = NoCall
MisconfiguredEnd(s) ==
    s.call = NoCall /\ s.resp = ErrorResponse("Server configuration error", 500, s.resp.acao)
UpstreamErrorEnd(s) ==
    \/ /\ s.up # NoReply
       /\ ~Ok(s.up.status)
       /\ s.resp.error = "Database request failed"
       /\ s.resp.status = (IF s.up.status >= 500 THEN 502 ELSE s.up.status)
    \/ s.resp = ErrorResponse("Internal server error", 500, s.resp.acao)
SuccessEnd(s) ==
    /\ s.up # NoReply
    /\ Ok(s.up.status)
    /\ s.resp = DataResponse(s.up.data, s.resp.acao)

Count(flags) == Cardinality({k \in DOMAIN flags : flags[k]})

\* a forwarded request has passed the rate and path checks
ForwardedAfterChecks ==
    \A i \in Proxied :
        slots[i].call # NoCall =>
            /\ ~OverLimit(ClientKey(slots[i].req))
            /\ ~PathMissing(slots[i].req)
            /\ WellFormed(slots[i].req.path)

\* a response, once given, is the invocation's only one
OneResponse ==
    \A i \in Slots :
        slots[i].pc = "done" => (slots'[i] = slots[i] \/ slots'[i] = IdleSlot)

\* every request is answered, and Forwarded is left again
Answers ==
    \A i \in Slots :
        /\ (slots[i].pc \in {"body", "fetch", "json"}) ~> (slots[i].pc = "done")
        /\ (slots[i].call # NoCall /\ slots[i].pc # "done") ~> (slots[i].pc = "done")

\* C16 as stated: every request is answered once, a request is forwarded only
\* after the rate and path checks, Forwarded is not final, and a request that
\* is not a preflight ends in exactly one of Invalid, RateLimited,
\* UpstreamError, Success.
C16_FourTerminals ==
    /\ ForwardedAfterChecks
    /\ \A i \in Proxied \cap Finished :
           LET s == slots[i]
           IN  Count(<<InvalidEnd(s), RateLimitedEnd(s), UpstreamErrorEnd(s), SuccessEnd(s)>>) = 1

\* C16 as amended: the same with a fifth terminal state, the 500 "Server
\* configuration error" of a request that passed the rate and path checks
\* while no token is configured; the 500 of the catch block counts as
\* UpstreamError.
C16_StateMachine ==
    /\ [](/\ ForwardedAfterChecks
          /\ \A i \in Proxied \cap Finished :
                 LET s == slots[i]
                 IN  /\ Count(<<InvalidEnd(s), RateLimitedEnd(s), MisconfiguredEnd(s),
                                UpstreamErrorEnd(s), SuccessEnd(s)>>) = 1
                     /\ MisconfiguredEnd(s) <=>
                            (env.AIRTABLE_TOKEN = "" /\ ~OverLimit(ClientKey(s.req))
                                /\ ~PathMissing(s.req) /\ WellFormed(s.req.path)))
    /\ [][OneResponse]_vars
    /\ Answers

\* a forwarded request ended in UpstreamError
C16_Witness ==
    \E i \in Proxied \cap Finished :
        /\ slots[i].calls = 1
        /\ slots[i].up.status = 503
        /\ slots[i].up.kind = "json"
        /\ slots[i].resp.status = 502

----------------------------------------------------------------------------
(* C17: with several invocations in flight, the count stored for a key is   *)
(* the number of calls made before plus the number of invocations of that   *)
(* key that are not preflights, whatever the interleaving, and the          *)
(* invocations that got past the rate check, with the calls made before,    *)
(* number at most RATE_LIMIT.                                               *)
Counted(key) ==
    {i \in DOMAIN slots : /\ slots[i].pc # "idle"
                          /\ slots[i].req.method # "OPTIONS"
                          /\ ClientKey(slots[i].req) = key}
Refused(i) ==
    /\ slots[i].pc = "done"
    /\ slots[i].call = NoCall
    /\ slots[i].resp.status = 429

C17_NoLostIncrement ==
    \A key \in {"ip1", "ip2"} :
        LET counted == Counted(key)
            passed == {i \in counted : ~Refused(i)}
        IN  /\ counted # {} =>
                  /\ key \in DOMAIN rateLimits
                  /\ rateLimits[key].count = CallsBefore(key) + Cardinality(counted)
                  /\ rateLimits[key].resetAt = RATE_WINDOW
            /\ counted = {} =>
                  (key \in DOMAIN rateLimits => rateLimits[key].count = CallsBefore(key))
            /\ Cardinality(passed) <= RATE_LIMIT - CallsBefore(key)
            /\ CallsBefore(key) + Cardinality(counted) <= RATE_LIMIT
                  => passed = counted

\* three invocations of one key in flight or answered: two were forwarded
\* and are still waiting for Airtable, the third was refused
C17_Witness ==
    /\ Cardinality(Counted("ip1")) = 3
    /\ Cardinality({i \in Counted("ip1") : slots[i].pc = "fetch"}) = 2
    /\ Cardinality({i \in Counted("ip1") : Refused(i)}) = 1
    /\ rateLimits["ip1"].count = RATE_LIMIT + 1

----------------------------------------------------------------------------
(* C18: a cache write is started when the response is returned, not before  *)
(* and not awaited; an event that went to the network returns its own       *)
(* network response; the cache holds, for every URL written, the response   *)
(* of the write that completed last; a cache read yields an entry that was  *)
(* there before or one of the responses a completed write stored, whole.    *)
Written == {events[e].net : e \in {x \in DOMAIN events : events[x].put = "done"}}
Complete == {OldEntry, ShellEntry} \cup Written

C18_LastWriteWins ==
    /\ \A e \in DOMAIN events :
           LET ev == events[e]
           IN  /\ ev.put # "none" => (ev.pc = "done" /\ ev.resp = FromNetwork(ev.net))
               /\ ev.resp.src = "network" => ev.resp = FromNetwork(ev.net)
               /\ ev.resp.src = "cache" =>
                      [status |-> ev.resp.status, body |-> ev.resp.body] \in Complete
    /\ \A key \in DOMAIN lastPut : Match(cacheStorage, key) = lastPut[key]
    /\ (\A e \in DOMAIN events : events[e].put = "done" /\ events[e].req.url = PageUrl)
          => Match(cacheStorage, PageUrl) \in Written

\* both events missed, each returned its own response, and the write of the
\* second replaced the write of the first while the first response was
\* delivered long before
C18_Witness ==
    /\ events["e1"].resp = [src |-> "network", status |-> 200, body |-> "n1"]
    /\ events["e2"].resp = [src |-> "network", status |-> 200, body |-> "n3"]
    /\ events["e1"].reads = 1 /\ events["e2"].reads = 1
    /\ events["e1"].put = "done" /\ events["e2"].put = "done"
    /\ Match(cacheStorage, PageUrl) = [status |-> 200, body |-> "n3"]

----------------------------------------------------------------------------
(* C19: a call sweeps the table only when it holds more than CLEANUP_SIZE   *)
(* keys after the caller's record is stored; the sweep deletes exactly the  *)
(* records whose window has run out (now > resetAt); the caller's record    *)
(* and every record whose window is open stay as they are; so a key over    *)
(* its limit is not allowed again while its window is open.                 *)
Expired(rec, t) == t > rec.resetAt

\* a step that is a call checkRateLimit(lastKey')
CleanupStep ==
    (now' = now /\ lastKey' # NoKey) =>
        LET ip == lastKey'
            keys == DOMAIN rateLimits \cup {ip}
            size == Cardinality(keys) + crowd.n
            others == DOMAIN rateLimits \ {ip}
        IN  /\ ip \in DOMAIN rateLimits'
            /\ ~Expired(rateLimits'[ip], now)
            /\ size <= CLEANUP_SIZE =>
                  /\ DOMAIN rateLimits' = keys
                  /\ crowd' = crowd
            /\ size > CLEANUP_SIZE =>
                  /\ DOMAIN rateLimits' =
                         {ip} \cup {k \in others : ~Expired(rateLimits[k], now)}
                  /\ crowd'.n = (IF Expired(crowd, now) THEN 0 ELSE crowd.n)
            /\ \A k \in others :
                  ~Expired(rateLimits[k], now) =>
                      (k \in DOMAIN rateLimits' /\ rateLimits'[k] = rateLimits[k])
            /\ (ip \in DOMAIN rateLimits /\ ~Expired(rateLimits[ip], now)) =>
                  /\ rateLimits'[ip].resetAt = rateLimits[ip].resetAt
                  /\ rateLimits'[ip].count = rateLimits[ip].count + 1
                  /\ rateLimits[ip].count >= RATE_LIMIT => ~allowed'

C19_CleanupOnlyExpired ==
    /\ [][CleanupStep]_vars
    /\ [](lastKey # NoKey =>
             /\ lastKey \in DOMAIN rateLimits
             /\ allowed <=> (winLog[lastKey].calls <= RATE_LIMIT)
             /\ rateLimits[lastKey].count = winLog[lastKey].calls)

\* a sweep removed the silent clients' expired records while "ip1", over its
\* limit with its window open, was refused and "ip2" kept its record
C19_Witness ==
    /\ crowd = NoCrowd
    /\ now <= RATE_WINDOW
    /\ lastKey = "ip1"
    /\ ~allowed
    /\ rateLimits["ip1"].count = RATE_LIMIT + 1
    /\ "ip2" \in DOMAIN rateLimits

----------------------------------------------------------------------------
(* C20: a request to the proxy that is not a preflight updates the record   *)
(* of its key, and no other, once, when it is received, whatever it is      *)
(* answered; the key is CF-Connecting-IP, else the first X-Forwarded-For    *)
(* entry, else "unknown", never the empty key; a preflight changes no       *)
(* record and makes no upstream call; a call in an open window adds one to  *)
(* the count and leaves resetAt as it is.                                   *)
AccountedKey(req) ==
    IF req.cfip # "" THEN req.cfip
    ELSE IF req.xff # <<>> /\ req.xff[1] # "" THEN req.xff[1]
    ELSE "unknown"

Accounting(i) ==
    LET req == slots'[i].req
        key == AccountedKey(req)
        received == slots[i].pc = "idle" /\ slots'[i].pc # "idle"
    IN  /\ ~received => rateLimits' = rateLimits
        /\ (received /\ req.ep = "intent") => rateLimits' = rateLimits
        /\ (received /\ req.ep = "airtable" /\ req.method = "OPTIONS") =>
              /\ rateLimits' = rateLimits
              /\ slots'[i].pc = "done"
              /\ slots'[i].call = NoCall
              /\ slots'[i].calls = 0
        /\ (received /\ req.ep = "airtable" /\ req.method # "OPTIONS") =>
              /\ key # NoKey
              /\ DOMAIN rateLimits' = DOMAIN rateLimits \cup {key}
              /\ \A k \in DOMAIN rateLimits \ {key} : rateLimits'[k] = rateLimits[k]
              /\ IF key \in DOMAIN rateLimits /\ now <= rateLimits[key].resetAt
                 THEN /\ rateLimits'[key].count = rateLimits[key].count + 1
                      /\ rateLimits'[key].resetAt = rateLimits[key].resetAt
                 ELSE rateLimits'[key] = [count |-> 1, resetAt |-> now + RATE_WINDOW]
              /\ slots'[i].pc = "done" => slots'[i].resp.status \in {400, 429, 500}

====
